---- MODULE Spec2Model ----
(***************************************************************************)
(* A model of scripts/specs-overview.py: the scan of spec directories, the *)
(* per-spec enrichment through two external programs, the sort and the     *)
(* three renderers.                                                        *)
(*                                                                         *)
(* Conventions.  A path is the sequence of its components.  An Optional    *)
(* value is a sequence of length 0 (None) or 1.  A datetime is a record    *)
(* [aware, t]: aware says whether it carries a UTC offset, t is the        *)
(* instant.  A printed line is a sequence of strings (its cells).          *)
(***************************************************************************)
EXTENDS Integers, Sequences, FiniteSets, TLC

VARIABLES
    pc,           \* position of the program
    fs,           \* the file system: [dirs, files, tasks]
    env,          \* what the external programs answer, per spec directory
    root_dirs,    \* scan_specs' root_dirs
    project_name, \* scan_specs' project_name (Optional)
    spec_dirs,    \* scan_specs' spec_dirs, the sorted discoveries
    specs,        \* the records: scan_specs' specs, then the sorted list
    project_dirs, \* scan_multi_project's project_dirs
    base_i,       \* how many of project_dirs its loop has taken
    probe_dirs,   \* scan_multi_project's spec_dirs (the probe list)
    projects,     \* the sorted entries of the workspace being walked
    all_specs,    \* scan_multi_project's all_specs
    sorted_specs, \* the list sort_specs returns
    sort_by,      \* args.sort
    reverse,      \* args.reverse
    format,       \* args.format
    stdout,       \* the lines printed to standard output
    stderr        \* the lines printed to the error stream

vars == <<pc, fs, env, root_dirs, project_name, spec_dirs, specs, project_dirs,
          base_i, probe_dirs, projects, all_specs, sorted_specs, sort_by, reverse, format, stdout, stderr>>

(***************************************************************************)
(* Bounds of the model.                                                    *)
(***************************************************************************)
MaxCount == 3
MaxRoots == 2
MaxWorkspaces == 2
MaxSpecs == 3
MaxRows == 2

None == <<>>
Some(x) == <<x>>

\* Python's truth value of an Optional[str]: None and "" are false.
Truthy(opt) == opt # None /\ opt[1] # ""

(***************************************************************************)
(* Strings are ordered by code point.  StrOrder lists, in that order, the  *)
(* strings the model compares.                                             *)
(***************************************************************************)
StrOrder == <<".", ".hidden", ".kiro", "README", "__pycache__", "a", "alpha",
              "b", "beta", "full", "gone", "node_modules", "smolspec", "specs",
              "sub", "unknown", "venv", "work", "x">>

StrRank(s) == CHOOSE i \in 1..Len(StrOrder) : StrOrder[i] = s

StrLess(a, b) == StrRank(a) < StrRank(b)

\* Path.__lt__: paths compare as the lists of their components.
RECURSIVE PathLess(_, _)
PathLess(p, q) ==
    IF q = <<>> THEN FALSE
    ELSE IF p = <<>> THEN TRUE
    ELSE IF p[1] = q[1] THEN PathLess(Tail(p), Tail(q))
    ELSE StrLess(p[1], q[1])

IsPrefix(p, q) == Len(p) <= Len(q) /\ SubSeq(q, 1, Len(p)) = p

\* str(path): the components joined by "/", "." for the empty path.
RECURSIVE PathStr(_)
PathStr(p) ==
    IF p = <<>> THEN "."
    ELSE IF Len(p) = 1 THEN p[1]
    ELSE p[1] \o "/" \o PathStr(Tail(p))

(***************************************************************************)
(* SpecInfo and its derived properties.                                    *)
(***************************************************************************)
SpecInfo(name, path, spec_type, created, total, pending, in_progress, completed, project) ==
    [name |-> name, path |-> path, spec_type |-> spec_type, created |-> created,
     total |-> total, pending |-> pending, in_progress |-> in_progress,
     completed |-> completed, project |-> project]

\* status with the Pending test before the Complete test.
status_pending_first(s) ==
    IF s.total = 0 THEN "Empty"
    ELSE IF s.pending = s.total THEN "Pending"
    ELSE IF s.completed = s.total THEN "Complete"
    ELSE "In Progress"

status(s) ==
    IF s.total = 0 THEN "Empty"
    ELSE IF s.completed = s.total THEN "Complete"
    ELSE IF s.pending = s.total THEN "Pending"
    ELSE "In Progress"

status_symbol(s) ==
    IF status(s) = "Complete" THEN "v"
    ELSE IF status(s) = "In Progress" THEN "!"
    ELSE IF status(s) = "Pending" THEN "o"
    ELSE "-"

remaining(s) == s.total - s.completed

\* completion_pct as the exact fraction <<numerator, denominator>> of the
\* float (completed / total) * 100; <<0, 1>> is 0.0.
completion_pct(s) ==
    IF s.total = 0 THEN <<0, 1>> ELSE <<s.completed * 100, s.total>>

\* x < y on two such fractions (the denominators are positive).
PctLess(x, y) == x[1] * y[2] < y[1] * x[2]

\* f"{pct:.1f}": the percentage to one decimal; exact below 16 tasks, where
\* no value lies halfway between two tenths.
PctStr(s) ==
    LET p == completion_pct(s)
        tenths == (2 * 10 * p[1] + p[2]) \div (2 * p[2])
    IN ToString(tenths \div 10) \o "." \o ToString(tenths % 10)

(***************************************************************************)
(* The file system.  fs.dirs are the directories, fs.files the other       *)
(* entries, fs.tasks the directories that hold a tasks.md.                 *)
(***************************************************************************)
exists(p) == p \in fs.dirs \/ p \in fs.files

is_dir(p) == p \in fs.dirs

\* sorted() on a list of paths, by insertion: stable, as list.sort is.
RECURSIVE InsertPath(_, _)
InsertPath(p, sorted) ==
    IF sorted = <<>> THEN <<p>>
    ELSE IF PathLess(p, Head(sorted)) THEN <<p>> \o sorted
    ELSE <<Head(sorted)>> \o InsertPath(p, Tail(sorted))

RECURSIVE SortedPaths(_)
SortedPaths(ps) ==
    IF ps = <<>> THEN <<>>
    ELSE InsertPath(ps[Len(ps)], SortedPaths(SubSeq(ps, 1, Len(ps) - 1)))

\* A finite set of paths as a list, in path order.
RECURSIVE SetToSortedSeq(_)
SetToSortedSeq(S) ==
    IF S = {} THEN <<>>
    ELSE LET m == CHOOSE p \in S : \A q \in S : ~PathLess(q, p)
         IN <<m>> \o SetToSortedSeq(S \ {m})

\* root_path.rglob("tasks.md"), each match's parent: the directories at or
\* below the root that hold a tasks.md.
rglob_parents(root) == SetToSortedSeq({d \in fs.tasks : IsPrefix(root, d)})

RECURSIVE find_from(_)
find_from(roots) ==
    IF roots = <<>> THEN <<>>
    ELSE (IF ~exists(Head(roots)) THEN <<>> ELSE rglob_parents(Head(roots)))
         \o find_from(Tail(roots))

find_spec_directories(roots) == SortedPaths(find_from(roots))

\* spec_dir.relative_to(root_path): the rest of the path, or ValueError.
relative_to(p, root) ==
    IF IsPrefix(root, p)
    THEN [ok |-> TRUE, path |-> SubSeq(p, Len(root) + 1, Len(p))]
    ELSE [ok |-> FALSE, path |-> <<>>]

\* relative_name with the spec directory's own name in every case.
relative_name_basename(spec_dir, roots) == spec_dir[Len(spec_dir)]

\* The name loop of scan_specs: the first root that exists and that the
\* spec directory is relative to; the directory's own name when none is.
RECURSIVE relative_name(_, _)
relative_name(spec_dir, roots) ==
    IF roots = <<>> THEN spec_dir[Len(spec_dir)]
    ELSE IF exists(Head(roots)) /\ relative_to(spec_dir, Head(roots)).ok
         THEN PathStr(relative_to(spec_dir, Head(roots)).path)
         ELSE relative_name(spec_dir, Tail(roots))

(***************************************************************************)
(* The environment of one spec directory: env[d].docs are the companion    *)
(* files present, env[d].git what the history query gives, env[d].rune     *)
(* what running the task-stat binary gives.                                *)
(***************************************************************************)
detect_spec_type(spec_dir) ==
    LET docs == env[spec_dir].docs
    IN IF "requirements.md" \in docs /\ "design.md" \in docs THEN "full"
       ELSE IF "smolspec.md" \in docs THEN "smolspec"
       ELSE "unknown"

\* git.kind: "error" (git cannot be run, or exits non-zero), "empty" (no
\* output), "garbage" (a first line fromisoformat rejects), "ok" (a first
\* line %aI printed: an instant git.t with its UTC offset).
get_creation_date(spec_dir) ==
    LET git == env[spec_dir].git
    IN IF git.kind = "ok" THEN Some([aware |-> TRUE, t |-> git.t]) ELSE None

StatKeys == {"total", "pending", "in_progress", "completed"}

\* A dict is the set of its <<key, value>> items.
DefaultStats == {<<k, 0>> : k \in StatKeys}

NoDict == {}

\* rune.kind: "launch_error" (subprocess.run raises), "nonzero" (exit code
\* not 0), "not_json" (json.loads raises), "json_not_object" (a JSON value
\* without .get), "no_stats" (an object without "stats"), "stats_not_object"
\* (an object whose "stats" is null, a list or a scalar), "ok" (an object
\* whose "stats" is the object rune.stats).
\* The result: ret, the value returned (isdict, dict), and warn, the lines
\* written to the error stream.
get_task_stats(spec_dir) ==
    LET rune == env[spec_dir].rune
        warning(e) == <<"Warning: Failed to get stats for", PathStr(spec_dir), e>>
        default == [isdict |-> TRUE, dict |-> DefaultStats]
    IN CASE rune.kind = "launch_error" ->
              [ret |-> default, warn |-> <<warning("FileNotFoundError")>>]
         [] rune.kind = "nonzero" ->
              [ret |-> default, warn |-> <<>>]
         [] rune.kind = "not_json" ->
              [ret |-> default, warn |-> <<warning("JSONDecodeError")>>]
         [] rune.kind = "json_not_object" ->
              [ret |-> default, warn |-> <<warning("AttributeError")>>]
         [] rune.kind = "no_stats" ->
              [ret |-> [isdict |-> TRUE, dict |-> NoDict], warn |-> <<>>]
         [] rune.kind = "stats_not_object" ->
              [ret |-> [isdict |-> FALSE, dict |-> NoDict], warn |-> <<>>]
         [] OTHER ->
              [ret |-> [isdict |-> TRUE, dict |-> rune.stats], warn |-> <<>>]

\* stats.get(key, 0)
dict_get(d, key) ==
    IF \E e \in d : e[1] = key THEN (CHOOSE e \in d : e[1] = key)[2] ELSE 0

(***************************************************************************)
(* scan_specs.  ScanCall is its entry (the discovery), ScanOne one turn of *)
(* its loop over spec_dirs, ScanRaise the turn in which stats.get raises.  *)
(***************************************************************************)
ScanCall ==
    /\ pc = "scan_specs"
    /\ spec_dirs' = find_spec_directories(root_dirs)
    /\ specs' = <<>>
    /\ pc' = "scan_loop"
    /\ UNCHANGED <<fs, env, root_dirs, project_name, project_dirs, base_i, probe_dirs,
                   projects, all_specs, sorted_specs, sort_by, reverse, format, stdout, stderr>>

ScanOne ==
    /\ pc = "scan_loop"
    /\ Len(specs) < Len(spec_dirs)
    /\ LET spec_dir == spec_dirs[Len(specs) + 1]
           name == relative_name(spec_dir, root_dirs)
           spec_type == detect_spec_type(spec_dir)
           created == get_creation_date(spec_dir)
           got == get_task_stats(spec_dir)
           stats == got.ret.dict
       IN /\ got.ret.isdict
          /\ stderr' = stderr \o got.warn
          /\ specs' = Append(specs,
                 SpecInfo(name, spec_dir, spec_type, created,
                          dict_get(stats, "total"), dict_get(stats, "pending"),
                          dict_get(stats, "in_progress"), dict_get(stats, "completed"),
                          project_name))
    /\ UNCHANGED <<pc, fs, env, root_dirs, project_name, spec_dirs, project_dirs, base_i,
                   probe_dirs, projects, all_specs, sorted_specs, sort_by, reverse, format, stdout>>

\* stats is not a dict: stats.get raises AttributeError, which nothing catches.
ScanRaise ==
    /\ pc = "scan_loop"
    /\ Len(specs) < Len(spec_dirs)
    /\ LET got == get_task_stats(spec_dirs[Len(specs) + 1])
       IN /\ ~got.ret.isdict
          /\ stderr' = stderr \o got.warn
    /\ pc' = "raised"
    /\ UNCHANGED <<fs, env, root_dirs, project_name, spec_dirs, specs, project_dirs, base_i,
                   probe_dirs, projects, all_specs, sorted_specs, sort_by, reverse, format, stdout>>

\* scan_specs returns to main: the single-project scan is over.
ScanReturn ==
    /\ pc = "scan_loop"
    /\ Len(specs) = Len(spec_dirs)
    /\ project_name = None
    /\ pc' = "scanned"
    /\ UNCHANGED <<fs, env, root_dirs, project_name, spec_dirs, specs, project_dirs, base_i,
                   probe_dirs, projects, all_specs, sorted_specs, sort_by, reverse, format, stdout, stderr>>

(***************************************************************************)
(* scan_multi_project.  MultiNextBase takes the next workspace, and        *)
(* MultiProject the next entry of the workspace being walked; an entry     *)
(* that is a project with spec directories calls scan_specs, which         *)
(* returns through ScanReturnMulti.  The workspace paths are taken as      *)
(* given absolute, so that expanduser().resolve() leaves them as they are. *)
(***************************************************************************)
Denylist == {"node_modules", "venv", "__pycache__"}

\* project_path.name.startswith('.')
StartsWithDot(name) == Len(name) > 0 /\ SubSeq(name, 1, 1) = "."

\* project_base_path.iterdir(): the entries directly inside a directory.
iterdir(base) ==
    {p \in fs.dirs \cup fs.files : Len(p) = Len(base) + 1 /\ IsPrefix(base, p)}

\* The probe paths that exist in a project, in the order of the probe list.
RECURSIVE project_spec_dirs(_, _)
project_spec_dirs(project_path, probes) ==
    IF probes = <<>> THEN <<>>
    ELSE (IF exists(project_path \o Head(probes))
          THEN <<project_path \o Head(probes)>> ELSE <<>>)
         \o project_spec_dirs(project_path, Tail(probes))

\* skipped_entry without the denylist.
skipped_entry_no_denylist(project_path) ==
    \/ ~is_dir(project_path)
    \/ StartsWithDot(project_path[Len(project_path)])

\* Whether the loop body passes an entry by before it builds the probe paths.
skipped_entry(project_path) ==
    LET name == project_path[Len(project_path)]
    IN \/ ~is_dir(project_path)
       \/ StartsWithDot(name)
       \/ name \in Denylist

\* missing_base_report with the workspace passed by in silence.
missing_base_silent(project_base) == <<>>

\* What scan_multi_project does with a workspace that is missing or not a
\* directory: the lines it writes to the error stream.
missing_base_report(project_base) ==
    <<<<"Warning: Project directory not found:", PathStr(project_base)>>>>

MultiNextBase ==
    /\ pc = "multi_loop"
    /\ projects = <<>>
    /\ base_i < Len(project_dirs)
    /\ LET project_base == project_dirs[base_i + 1]
       IN IF ~exists(project_base) \/ ~is_dir(project_base)
          THEN /\ stderr' = stderr \o missing_base_report(project_base)
               /\ projects' = <<>>
          ELSE /\ stderr' = stderr
               /\ projects' = SetToSortedSeq(iterdir(project_base))
    /\ base_i' = base_i + 1
    /\ UNCHANGED <<pc, fs, env, root_dirs, project_name, spec_dirs, specs, project_dirs,
                   probe_dirs, all_specs, sorted_specs, sort_by, reverse, format, stdout>>

\* An entry that is passed by: not a directory, hidden, denylisted, or
\* without any of the probe paths.
MultiSkip ==
    /\ pc = "multi_loop"
    /\ projects # <<>>
    /\ \/ skipped_entry(Head(projects))
       \/ project_spec_dirs(Head(projects), probe_dirs) = <<>>
    /\ projects' = Tail(projects)
    /\ UNCHANGED <<pc, fs, env, root_dirs, project_name, spec_dirs, specs, project_dirs, base_i,
                   probe_dirs, all_specs, sorted_specs, sort_by, reverse, format, stdout, stderr>>

\* A project with spec directories: scan_specs is called on them.
MultiProject ==
    /\ pc = "multi_loop"
    /\ projects # <<>>
    /\ ~skipped_entry(Head(projects))
    /\ project_spec_dirs(Head(projects), probe_dirs) # <<>>
    /\ root_dirs' = project_spec_dirs(Head(projects), probe_dirs)
    /\ project_name' = Some(Head(projects)[Len(Head(projects))])
    /\ projects' = Tail(projects)
    /\ pc' = "scan_specs"
    /\ UNCHANGED <<fs, env, spec_dirs, specs, project_dirs, base_i, probe_dirs, all_specs,
                   sorted_specs, sort_by, reverse, format, stdout, stderr>>

\* scan_specs returns to scan_multi_project, which extends all_specs.
ScanReturnMulti ==
    /\ pc = "scan_loop"
    /\ Len(specs) = Len(spec_dirs)
    /\ project_name # None
    /\ all_specs' = all_specs \o specs
    /\ pc' = "multi_loop"
    /\ UNCHANGED <<fs, env, root_dirs, project_name, spec_dirs, specs, project_dirs, base_i,
                   probe_dirs, projects, sorted_specs, sort_by, reverse, format, stdout, stderr>>

\* scan_multi_project returns all_specs to main.
MultiReturn ==
    /\ pc = "multi_loop"
    /\ projects = <<>>
    /\ base_i = Len(project_dirs)
    /\ specs' = all_specs
    /\ pc' = "scanned"
    /\ UNCHANGED <<fs, env, root_dirs, project_name, spec_dirs, project_dirs, base_i,
                   probe_dirs, projects, all_specs, sorted_specs, sort_by, reverse, format, stdout, stderr>>

(***************************************************************************)
(* sort_specs.  sorted(specs, key=..., reverse=reverse) is list.sort: with *)
(* reverse set it reverses the list, sorts it stably and reverses the      *)
(* result, so that equal keys keep their input order either way.           *)
(***************************************************************************)
DatetimeMin == [aware |-> FALSE, t |-> 0]

\* The key of a record under a sort key.
sort_key(s, by) ==
    CASE by = "name" -> s.name
      [] by = "date" -> (IF s.created # None THEN s.created[1] ELSE DatetimeMin)
      [] by = "completion" -> completion_pct(s)
      [] OTHER -> s.spec_type

\* k1 < k2 on two keys of one sort key.  Two datetimes of which only one
\* carries an offset do not compare: datetime.__lt__ raises TypeError.
key_comparable(k1, k2, by) == by = "date" => k1.aware = k2.aware

key_less(k1, k2, by) ==
    CASE by = "name" -> StrLess(k1, k2)
      [] by = "date" -> k1.t < k2.t
      [] by = "completion" -> PctLess(k1, k2)
      [] OTHER -> StrLess(k1, k2)

Reversed(xs) == [i \in 1..Len(xs) |-> xs[Len(xs) + 1 - i]]

\* A stable sort by insertion: an element goes after the elements whose key
\* is not greater than its own.
RECURSIVE InsertByKey(_, _, _)
InsertByKey(x, sorted, by) ==
    IF sorted = <<>> THEN <<x>>
    ELSE IF key_less(sort_key(x, by), sort_key(Head(sorted), by), by)
         THEN <<x>> \o sorted
         ELSE <<Head(sorted)>> \o InsertByKey(x, Tail(sorted), by)

RECURSIVE StableSort(_, _)
StableSort(xs, by) ==
    IF xs = <<>> THEN <<>>
    ELSE InsertByKey(xs[Len(xs)], StableSort(SubSeq(xs, 1, Len(xs) - 1), by), by)

\* Whether the sort raises: a sort compares, directly or through others,
\* every two elements, so it meets two keys that do not compare whenever the
\* list holds two.
sort_raises(xs, by) ==
    \E i, j \in 1..Len(xs) : ~key_comparable(sort_key(xs[i], by), sort_key(xs[j], by), by)

sorted_by(xs, by, rev) ==
    IF rev THEN Reversed(StableSort(Reversed(xs), by)) ELSE StableSort(xs, by)

SortKeys == {"name", "date", "completion", "type"}

sort_specs ==
    /\ pc = "sort"
    /\ ~sort_raises(specs, sort_by)
    /\ sorted_specs' = (IF sort_by \in SortKeys THEN sorted_by(specs, sort_by, reverse)
                        ELSE specs)
    /\ pc' = "sorted"
    /\ UNCHANGED <<fs, env, root_dirs, project_name, spec_dirs, specs, project_dirs, base_i,
                   probe_dirs, projects, all_specs, sort_by, reverse, format, stdout, stderr>>

\* The comparison of datetime.min with a datetime that carries an offset
\* raises TypeError, which nothing catches.
SortRaise ==
    /\ pc = "sort"
    /\ sort_raises(specs, sort_by)
    /\ pc' = "raised"
    /\ UNCHANGED <<fs, env, root_dirs, project_name, spec_dirs, specs, project_dirs, base_i,
                   probe_dirs, projects, all_specs, sorted_specs, sort_by, reverse, format,
                   stdout, stderr>>

(***************************************************************************)
(* The renderers.  A printed line is the sequence of its cells: the table  *)
(* joins them with two spaces, the markdown table with " | " between outer *)
(* pipes; a JSON object is one line of alternating keys and values, and    *)
(* the document opens with "[" and closes with "]".  The status symbols    *)
(* are written v, !, o and -, one character each as in the source.         *)
(***************************************************************************)
RECURSIVE PadRight(_, _)
PadRight(str, width) == IF Len(str) >= width THEN str ELSE PadRight(str \o " ", width)

RECURSIVE PadLeft(_, _)
PadLeft(str, width) == IF Len(str) >= width THEN str ELSE PadLeft(" " \o str, width)

RECURSIVE Repeat(_, _)
Repeat(str, n) == IF n <= 0 THEN "" ELSE str \o Repeat(str, n - 1)

\* strftime("%Y-%m-%d") of the instant t, day t of January 2024.
DateStr(d) == "2024-01-0" \o ToString(d.t)

\* isoformat()
IsoStr(d) == DateStr(d) \o "T00:00:00" \o (IF d.aware THEN "+00:00" ELSE "")

created_str(s) == IF s.created # None THEN DateStr(s.created[1]) ELSE "unknown"

status_str(s) == status_symbol(s) \o " " \o status(s)

\* has_projects with "is not None" for the truth value.
has_projects_not_none(ss) == \E i \in 1..Len(ss) : ss[i].project # None

\* any(s.project for s in specs)
has_projects(ss) == \E i \in 1..Len(ss) : Truthy(ss[i].project)

display_name(s) == IF Truthy(s.project) THEN s.project[1] \o "/" \o s.name ELSE s.name

Max(a, b) == IF a >= b THEN a ELSE b

RECURSIVE MaxLen(_)
MaxLen(strs) == IF strs = <<>> THEN 0 ELSE Max(Len(Head(strs)), MaxLen(Tail(strs)))

NoSpecsLine == <<"No specs found.">>

table_lines(ss) ==
    LET max_name == Max(MaxLen([i \in 1..Len(ss) |-> display_name(ss[i])]), Len("Spec"))
        header == <<PadRight(IF has_projects(ss) THEN "Project/Spec" ELSE "Spec", max_name),
                    PadRight("Type", 10), PadRight("Created", 12), PadRight("Status", 12),
                    PadLeft("Total", 5), PadLeft("Done", 5), PadLeft("Remaining", 9),
                    PadLeft("%", 6)>>
        row(s) == <<PadRight(display_name(s), max_name), PadRight(s.spec_type, 10),
                    PadRight(created_str(s), 12), PadRight(status_str(s), 12),
                    PadLeft(ToString(s.total), 5), PadLeft(ToString(s.completed), 5),
                    PadLeft(ToString(remaining(s)), 9), PadLeft(PctStr(s), 5) \o "%">>
    IN IF ss = <<>> THEN <<NoSpecsLine>>
       ELSE <<header, <<Repeat("=", max_name + 80)>> >> \o [i \in 1..Len(ss) |-> row(ss[i])]

markdown_lines(ss) ==
    LET columns == <<"Type", "Created", "Status", "Total", "Done", "Remaining", "%">>
        rules == <<"------", "---------", "--------", "------:", "-----:", "----------:",
                   "--:">>
        cells(s) == <<s.spec_type, created_str(s), status_str(s), ToString(s.total),
                      ToString(s.completed), ToString(remaining(s)), PctStr(s) \o "%">>
        row(s) == IF has_projects(ss)
                  THEN <<IF Truthy(s.project) THEN s.project[1] ELSE "-", s.name>> \o cells(s)
                  ELSE <<s.name>> \o cells(s)
    IN IF ss = <<>> THEN <<NoSpecsLine>>
       ELSE (IF has_projects(ss)
             THEN <<<<"Project", "Spec">> \o columns, <<"---------", "------">> \o rules>>
             ELSE <<<<"Spec">> \o columns, <<"------">> \o rules>>)
            \o [i \in 1..Len(ss) |-> row(ss[i])]

\* The float completion_pct in a JSON document, written as the fraction it
\* is the nearest float to.
JsonFloat(x) == IF x[1] = 0 THEN "0.0" ELSE ToString(x[1]) \o "/" \o ToString(x[2])

json_object(s) ==
    <<"name", s.name, "path", PathStr(s.path), "type", s.spec_type,
      "created", IF s.created # None THEN IsoStr(s.created[1]) ELSE "null",
      "status", status(s),
      "total", ToString(s.total), "pending", ToString(s.pending),
      "in_progress", ToString(s.in_progress), "completed", ToString(s.completed),
      "remaining", ToString(remaining(s)),
      "completion_pct", JsonFloat(completion_pct(s))>>
    \o (IF Truthy(s.project) THEN <<"project", s.project[1]>> ELSE <<>>)

\* json_lines with the empty list treated as the other two renderers do.
json_lines_no_specs(ss) ==
    IF ss = <<>> THEN <<NoSpecsLine>>
    ELSE <<<<"[">>>> \o [i \in 1..Len(ss) |-> json_object(ss[i])] \o <<<<"]">>>>

\* json.dumps(data, indent=2): "[]" for the empty list.
json_lines(ss) ==
    IF ss = <<>> THEN <<<<"[]">>>>
    ELSE <<<<"[">>>> \o [i \in 1..Len(ss) |-> json_object(ss[i])] \o <<<<"]">>>>

output_table ==
    /\ pc = "output"
    /\ format = "table"
    /\ stdout' = stdout \o table_lines(specs)
    /\ pc' = "done"
    /\ UNCHANGED <<fs, env, root_dirs, project_name, spec_dirs, specs, project_dirs, base_i,
                   probe_dirs, projects, all_specs, sorted_specs, sort_by, reverse, format,
                   stderr>>

output_markdown ==
    /\ pc = "output"
    /\ format = "markdown"
    /\ stdout' = stdout \o markdown_lines(specs)
    /\ pc' = "done"
    /\ UNCHANGED <<fs, env, root_dirs, project_name, spec_dirs, specs, project_dirs, base_i,
                   probe_dirs, projects, all_specs, sorted_specs, sort_by, reverse, format,
                   stderr>>

output_json ==
    /\ pc = "output"
    /\ format = "json"
    /\ stdout' = stdout \o json_lines(specs)
    /\ pc' = "done"
    /\ UNCHANGED <<fs, env, root_dirs, project_name, spec_dirs, specs, project_dirs, base_i,
                   probe_dirs, projects, all_specs, sorted_specs, sort_by, reverse, format,
                   stderr>>

(***************************************************************************)
(* The inputs.                                                             *)
(***************************************************************************)
\* Sequences over S of length lo..hi.
SeqsOf(S, lo, hi) == UNION {[1..n -> S] : n \in lo..hi}

Idle ==
    /\ sorted_specs = <<>>
    /\ sort_by = "name"
    /\ reverse = FALSE
    /\ format = "table"
    /\ stdout = <<>>
    /\ stderr = <<>>

NoScan ==
    /\ fs = [dirs |-> {}, files |-> {}, tasks |-> {}]
    /\ env = <<>>
    /\ root_dirs = <<>>
    /\ project_name = None
    /\ spec_dirs = <<>>
    /\ project_dirs = <<>>
    /\ base_i = 0
    /\ probe_dirs = <<>>
    /\ projects = <<>>
    /\ all_specs = <<>>

\* What the two external programs and the companion files give for a spec
\* directory: a healthy one, one whose rune exits non-zero, one whose rune
\* prints {"stats": null}.
Healthy ==
    [docs |-> {"requirements.md", "design.md"},
     git |-> [kind |-> "ok", t |-> 1],
     rune |-> [kind |-> "ok",
               stats |-> {<<"total", 2>>, <<"pending", 1>>, <<"in_progress", 0>>,
                          <<"completed", 1>>}]]

Failing ==
    [docs |-> {"smolspec.md"},
     git |-> [kind |-> "empty", t |-> 0],
     rune |-> [kind |-> "nonzero", stats |-> {}]]

Broken ==
    [docs |-> {},
     git |-> [kind |-> "error", t |-> 0],
     rune |-> [kind |-> "stats_not_object", stats |-> {}]]

Profiles == {Healthy, Failing, Broken}

\* Single-project mode: main calls scan_specs(args.dirs, args.rune).
SingleTasks == {<<"specs", "a">>, <<"specs", "sub">>, <<"specs", "sub", "x">>}

SingleRoots == {<<"specs">>, <<"specs", "sub">>, <<"gone">>}

InitSingle ==
    /\ pc = "scan_specs"
    /\ \E tasks \in SUBSET SingleTasks :
          /\ fs = [dirs |-> {<<"specs">>} \cup SingleTasks, files |-> {}, tasks |-> tasks]
          /\ env \in [tasks -> Profiles]
    /\ root_dirs \in SeqsOf(SingleRoots, 1, MaxRoots)
    /\ project_name = None
    /\ spec_dirs = <<>>
    /\ specs = <<>>
    /\ project_dirs = <<>>
    /\ base_i = 0
    /\ probe_dirs = <<>>
    /\ projects = <<>>
    /\ all_specs = <<>>
    /\ Idle

\* Multi-project mode: main calls scan_multi_project(args.project_dirs,
\* args.dirs, args.rune).  The workspace work holds the projects alpha and
\* beta, a hidden directory, the three denylisted directories and a file.
Work == <<"work">>

PassedBy == {".hidden", "node_modules", "venv", "__pycache__"}

FixedDirs ==
    {Work, Work \o <<"alpha">>, Work \o <<"beta">>}
    \cup {Work \o <<n>> : n \in PassedBy}
    \cup {Work \o <<n, "specs">> : n \in PassedBy}
    \cup {Work \o <<n, "specs", "a">> : n \in PassedBy}

FixedTasks == {Work \o <<n, "specs", "a">> : n \in PassedBy}

OptionalProbes ==
    {Work \o <<"alpha", "specs">>, Work \o <<"alpha", ".kiro", "specs">>,
     Work \o <<"beta", "specs">>}

Workspaces == {Work, <<"gone">>, Work \o <<"README">>}

ProbeLists == {<< <<"specs">>, <<".kiro", "specs">> >>, << <<"specs">> >>}

InitMulti ==
    /\ pc = "multi_loop"
    /\ \E probes \in SUBSET OptionalProbes : \E withTasks \in SUBSET probes :
          LET tasks == {p \o <<"a">> : p \in withTasks}
          IN /\ fs = [dirs |-> FixedDirs \cup probes \cup tasks
                                \cup {SubSeq(p, 1, 3) : p \in {q \in probes : Len(q) = 4}},
                      files |-> {Work \o <<"README">>},
                      tasks |-> FixedTasks \cup tasks]
             /\ \E e \in [tasks -> Profiles] :
                   env = [d \in FixedTasks \cup tasks |->
                             IF d \in tasks THEN e[d] ELSE Healthy]
    /\ project_dirs \in SeqsOf(Workspaces, 1, MaxWorkspaces)
    /\ base_i = 0
    /\ probe_dirs \in ProbeLists
    /\ root_dirs = <<>>
    /\ project_name = None
    /\ spec_dirs = <<>>
    /\ specs = <<>>
    /\ projects = <<>>
    /\ all_specs = <<>>
    /\ Idle

Init == InitSingle \/ InitMulti

Next ==
    \/ ScanCall
    \/ ScanOne
    \/ ScanRaise
    \/ ScanReturn
    \/ MultiNextBase
    \/ MultiSkip
    \/ MultiProject
    \/ ScanReturnMulti
    \/ MultiReturn

Spec == Init /\ [][Next]_vars

(***************************************************************************)
(* The enrichment of each spec under every outcome of the two external     *)
(* programs: a single root with two spec directories.                      *)
(***************************************************************************)
DocSets == {{}, {"smolspec.md"}, {"requirements.md"}, {"requirements.md", "design.md"}}

GitOutcomes ==
    {[kind |-> k, t |-> 0] : k \in {"error", "empty", "garbage"}}
    \cup {[kind |-> "ok", t |-> 1]}

OkStats ==
    {{<<"total", 3>>, <<"pending", 1>>, <<"in_progress", 1>>, <<"completed", 1>>},
     {<<"total", 2>>, <<"completed", 2>>},
     {<<"pending", 1>>}}

RuneOutcomes ==
    {[kind |-> k, stats |-> {}] :
        k \in {"launch_error", "nonzero", "not_json", "json_not_object", "no_stats",
               "stats_not_object"}}
    \cup {[kind |-> "ok", stats |-> d] : d \in OkStats}

EnrichTasks == {<<"specs", "a">>, <<"specs", "b">>}

InitEnrich ==
    /\ pc = "scan_specs"
    /\ fs = [dirs |-> {<<"specs">>} \cup EnrichTasks, files |-> {}, tasks |-> EnrichTasks]
    /\ env \in [EnrichTasks -> [docs : DocSets, git : GitOutcomes, rune : RuneOutcomes]]
    /\ root_dirs = << <<"specs">> >>
    /\ project_name = None
    /\ spec_dirs = <<>>
    /\ specs = <<>>
    /\ project_dirs = <<>>
    /\ base_i = 0
    /\ probe_dirs = <<>>
    /\ projects = <<>>
    /\ all_specs = <<>>
    /\ Idle

NextEnrich ==
    \/ ScanCall
    \/ ScanOne
    \/ ScanRaise
    \/ ScanReturn

SpecEnrich == InitEnrich /\ [][NextEnrich]_vars

Count(s, key) ==
    CASE key = "total" -> s.total
      [] key = "pending" -> s.pending
      [] key = "in_progress" -> s.in_progress
      [] OTHER -> s.completed

\* C1: whatever the two external programs do for each spec, the scan does
\* not raise, and it returns one record per discovered spec directory in
\* which every count the collector's answer lacks is 0.
C1_FailureIsolation ==
    /\ pc # "raised"
    /\ pc = "scanned" =>
          /\ Len(specs) = Len(spec_dirs)
          /\ \A i \in 1..Len(specs) :
                /\ specs[i].path = spec_dirs[i]
                /\ \A key \in StatKeys :
                      LET rune == env[spec_dirs[i]].rune
                      IN (rune.kind # "ok" \/ ~\E e \in rune.stats : e[1] = key)
                            => Count(specs[i], key) = 0

RuneFailed(d) == env[d].rune.kind \in {"nonzero", "not_json", "launch_error"}

Warned(d) ==
    \E i \in 1..Len(stderr) :
        /\ stderr[i][1] = "Warning: Failed to get stats for"
        /\ stderr[i][2] = PathStr(d)

\* C2: a record whose task-stat invocation failed (non-zero exit, non-JSON
\* output, launch exception) has all four counts 0 and a warning naming its
\* spec path is on the error stream.
C2_FailureWarns ==
    \A i \in 1..Len(specs) :
        RuneFailed(specs[i].path) =>
            /\ \A key \in StatKeys : Count(specs[i], key) = 0
            /\ Warned(specs[i].path)

(***************************************************************************)
(* Properties of the scan, under Spec.                                     *)
(***************************************************************************)
MultiMode == probe_dirs # <<>>

\* The records produced so far in multi-project mode.
Produced == all_specs \o (IF pc \in {"scan_loop", "raised"} THEN specs ELSE <<>>)

\* The workspace entry a record's spec directory lies in.
EntryOf(r) == SubSeq(r.path, 1, Len(Work) + 1)

\* C7: in multi-project mode no record comes from a workspace entry that
\* is hidden, denylisted or without an existing probe path; every record is
\* tagged with the name of the workspace entry it lies in; and scan_specs
\* runs on exactly the probe paths that exist in the project.
C7_ProjectFilter ==
    MultiMode =>
        /\ \A i \in 1..Len(Produced) :
              LET r == Produced[i]
                  entry == EntryOf(r)
                  name == entry[Len(entry)]
              IN /\ SubSeq(name, 1, 1) # "."
                 /\ name \notin {"node_modules", "venv", "__pycache__"}
                 /\ \E k \in 1..Len(probe_dirs) : exists(entry \o probe_dirs[k])
                 /\ r.project = Some(name)
        /\ pc \in {"scan_specs", "scan_loop"} =>
              \E entry \in iterdir(Work) :
                 /\ project_name = Some(entry[Len(entry)])
                 /\ {root_dirs[i] : i \in 1..Len(root_dirs)}
                       = {q \in {entry \o probe_dirs[k] : k \in 1..Len(probe_dirs)} : exists(q)}
                 /\ Len(root_dirs) = Cardinality({root_dirs[i] : i \in 1..Len(root_dirs)})

\* Two projects have given records while hidden and denylisted directories
\* with spec directories of their own were passed by.
C7_Witness ==
    /\ MultiMode
    /\ pc = "scanned"
    /\ \E i, j \in 1..Len(specs) :
          /\ specs[i].project = Some("alpha")
          /\ specs[j].project = Some("beta")
    /\ Work \o <<"node_modules", "specs", "a">> \in fs.tasks
    /\ Work \o <<".hidden", "specs", "a">> \in fs.tasks

\* The spec directories a multi-project scan of one workspace gives records for.
Eligible ==
    {d \in fs.tasks :
        /\ SubSeq(d[Len(Work) + 1], 1, 1) # "."
        /\ d[Len(Work) + 1] \notin {"node_modules", "venv", "__pycache__"}
        /\ \E k \in 1..Len(probe_dirs) :
              IsPrefix(SubSeq(d, 1, Len(Work) + 1) \o probe_dirs[k], d)}

Mentions(streamLines, text) ==
    \E i \in 1..Len(streamLines) : \E c \in 1..Len(streamLines[i]) :
        streamLines[i][c] = text

Missing(p) == ~exists(p)

\* The discoveries a list of roots gives: one per root position and spec
\* directory at or below that root.
Discoveries(roots) ==
    {<<i, d>> \in (1..Len(roots)) \X fs.tasks :
        exists(roots[i]) /\ IsPrefix(roots[i], d)}

\* C8 as claimed: a missing root, and a workspace that is missing or not a
\* directory, is passed by, gives no record and leaves nothing about it on
\* the error stream.
C8_SilentSkip ==
    /\ \A i \in 1..Len(root_dirs) :
          (pc # "scan_specs" /\ Missing(root_dirs[i])) =>
              /\ ~Mentions(stderr, PathStr(root_dirs[i]))
              /\ \A k \in 1..Len(specs) : ~IsPrefix(root_dirs[i], specs[k].path)
    /\ \A i \in 1..base_i :
          ~is_dir(project_dirs[i]) =>
              /\ ~Mentions(stderr, PathStr(project_dirs[i]))
              /\ \A k \in 1..Len(Produced) : ~IsPrefix(project_dirs[i], Produced[k].path)

\* C8 as the code has it: a missing root is passed by in silence; a
\* workspace that is missing or not a directory is passed by with a warning
\* naming it on the error stream; neither gives a record, and the scan goes
\* on to the remaining roots and workspaces.
C8_SkipMissing ==
    /\ ~MultiMode =>
          /\ \A i \in 1..Len(root_dirs) :
                (pc # "scan_specs" /\ Missing(root_dirs[i])) =>
                    /\ ~Mentions(stderr, PathStr(root_dirs[i]))
                    /\ \A k \in 1..Len(specs) : ~IsPrefix(root_dirs[i], specs[k].path)
          /\ pc # "scan_specs" => Len(spec_dirs) = Cardinality(Discoveries(root_dirs))
    /\ \A i \in 1..base_i :
          ~is_dir(project_dirs[i]) =>
              /\ \E k \in 1..Len(stderr) :
                    stderr[k] = <<"Warning: Project directory not found:",
                                  PathStr(project_dirs[i])>>
              /\ \A k \in 1..Len(Produced) : ~IsPrefix(project_dirs[i], Produced[k].path)
    /\ (MultiMode /\ pc = "scanned") =>
          Len(specs) = Cardinality({i \in 1..Len(project_dirs) : is_dir(project_dirs[i])})
                          * Cardinality(Eligible)

\* A multi-project scan that passed a missing workspace by, warned of it and
\* gave records from the workspace after it.
C8_Witness ==
    /\ MultiMode
    /\ pc = "scanned"
    /\ Len(specs) > 0
    /\ Len(project_dirs) = 2
    /\ Missing(project_dirs[1])
    /\ Mentions(stderr, PathStr(project_dirs[1]))

\* A single-project scan that passed a missing root by and gave records
\* from the root after it.
C8_WitnessSingle ==
    /\ ~MultiMode
    /\ pc = "scanned"
    /\ Len(specs) > 0
    /\ Len(root_dirs) = 2
    /\ Missing(root_dirs[1])

\* How many records have this path and this name.
CountRecords(path, name) ==
    Cardinality({k \in 1..Len(specs) : specs[k].path = path /\ specs[k].name = name})

\* C10 as claimed: one record per (root, spec directory) discovery, named
\* by the path of the spec directory relative to the root of that discovery.
C10_NameFromOwnRoot ==
    (~MultiMode /\ pc = "scanned") =>
        /\ Len(specs) = Cardinality(Discoveries(root_dirs))
        /\ \A d \in fs.tasks : \A r \in {root_dirs[i] : i \in 1..Len(root_dirs)} :
              IsPrefix(r, d) =>
                 CountRecords(d, PathStr(SubSeq(d, Len(r) + 1, Len(d))))
                    = Cardinality({e \in Discoveries(root_dirs) :
                                      e[2] = d /\ root_dirs[e[1]] = r})

\* C10 as the code has it: one record per (root, spec directory) discovery,
\* no discovery merged with another, each named by the path of its spec
\* directory relative to the first root in the given order that exists and
\* holds it.
C10_NameFromFirstRoot ==
    ~MultiMode =>
        /\ pc \in {"scan_loop", "scanned"} =>
              /\ Len(spec_dirs) = Cardinality(Discoveries(root_dirs))
              /\ \A d \in fs.tasks :
                    Cardinality({k \in 1..Len(spec_dirs) : spec_dirs[k] = d})
                       = Cardinality({e \in Discoveries(root_dirs) : e[2] = d})
        /\ pc = "scanned" => Len(specs) = Len(spec_dirs)
        /\ \A k \in 1..Len(specs) :
              /\ specs[k].path = spec_dirs[k]
              /\ \E i \in 1..Len(root_dirs) :
                    /\ exists(root_dirs[i]) /\ IsPrefix(root_dirs[i], specs[k].path)
                    /\ \A j \in 1..(i - 1) :
                          ~(exists(root_dirs[j]) /\ IsPrefix(root_dirs[j], specs[k].path))
                    /\ specs[k].name =
                          PathStr(SubSeq(specs[k].path, Len(root_dirs[i]) + 1,
                                         Len(specs[k].path)))

\* One root inside the other, and a spec directory found from both.
C10_Witness ==
    /\ ~MultiMode
    /\ pc = "scanned"
    /\ Len(root_dirs) = 2
    /\ root_dirs[1] # root_dirs[2]
    /\ IsPrefix(root_dirs[2], root_dirs[1])
    /\ \E i, j \in 1..Len(specs) : i # j /\ specs[i].path = specs[j].path

(***************************************************************************)
(* The sorter on every list of up to MaxSpecs records.  A creation date is *)
(* absent or was read from git, which prints it with its UTC offset.       *)
(***************************************************************************)
SortRecords ==
    {SpecInfo(n, <<"specs", n>>, ty, c, st[1], st[1] - st[2], 0, st[2], None) :
        n \in {"a", "b"}, ty \in {"full", "smolspec"},
        c \in {None, Some([aware |-> TRUE, t |-> 1]), Some([aware |-> TRUE, t |-> 2])},
        st \in {<<0, 0>>, <<2, 1>>}}

InitSort ==
    /\ pc = "sort"
    /\ specs \in SeqsOf(SortRecords, 0, MaxSpecs)
    /\ sort_by \in SortKeys
    /\ reverse \in BOOLEAN
    /\ sorted_specs = <<>>
    /\ format = "table"
    /\ stdout = <<>>
    /\ stderr = <<>>
    /\ NoScan

NextSort ==
    \/ sort_specs
    \/ SortRaise

SpecSort == InitSort /\ [][NextSort]_vars

KeyOf(s) == sort_key(s, sort_by)

KeyLess(a, b) == key_less(KeyOf(a), KeyOf(b), sort_by)

\* A bijection of positions that carries xs to ys.
IsPermutation(xs, ys) ==
    /\ Len(xs) = Len(ys)
    /\ \A r \in {xs[i] : i \in 1..Len(xs)} \cup {ys[i] : i \in 1..Len(ys)} :
          Cardinality({i \in 1..Len(xs) : xs[i] = r})
             = Cardinality({i \in 1..Len(ys) : ys[i] = r})

\* No later element's key is before an earlier one's (after it, descending).
Ordered(ys) ==
    \A i, j \in 1..Len(ys) :
        i < j => IF reverse THEN ~KeyLess(ys[i], ys[j]) ELSE ~KeyLess(ys[j], ys[i])

\* Among the records of one key, the output has the input's order.
RECURSIVE Filter(_, _)
Filter(xs, k) ==
    IF xs = <<>> THEN <<>>
    ELSE (IF KeyOf(Head(xs)) = k THEN <<Head(xs)>> ELSE <<>>) \o Filter(Tail(xs), k)

Stable(xs, ys) ==
    \A k \in {KeyOf(xs[i]) : i \in 1..Len(xs)} : Filter(xs, k) = Filter(ys, k)

DistinctKeys(xs) ==
    \A i, j \in 1..Len(xs) : i # j => KeyOf(xs[i]) # KeyOf(xs[j])

\* C5: for every input list and each of the four keys, sort_specs returns a
\* permutation of the input ordered by the key, records of equal key in
\* their input order, and with pairwise distinct keys the output under
\* reverse is the reversal of the output without it.
C5_StableSort ==
    /\ pc # "raised"
    /\ pc = "sorted" =>
          /\ IsPermutation(specs, sorted_specs)
          /\ Ordered(sorted_specs)
          /\ Stable(specs, sorted_specs)
          /\ DistinctKeys(specs) =>
                sorted_specs = Reversed(sorted_by(specs, sort_by, ~reverse))

\* C6: the sort by date orders every list, lists mixing absent and present
\* creation dates included; ascending, every record without a date is
\* before every record with one, and descending after it.
C6_DateOrder ==
    sort_by = "date" =>
        /\ pc # "raised"
        /\ pc = "sorted" =>
              \A i, j \in 1..Len(sorted_specs) :
                  (sorted_specs[i].created = None /\ sorted_specs[j].created # None)
                      => IF reverse THEN j < i ELSE i < j

\* What does hold of sort_specs: when it returns, it returns a stable,
\* ordered permutation, reversed as a whole by the reverse flag.
SortedWhenReturned ==
    pc = "sorted" =>
        /\ IsPermutation(specs, sorted_specs)
        /\ Ordered(sorted_specs)
        /\ Stable(specs, sorted_specs)
        /\ DistinctKeys(specs) =>
              sorted_specs = Reversed(sorted_by(specs, sort_by, ~reverse))

(***************************************************************************)
(* The renderers on every list of up to MaxRows records, with and without  *)
(* project tags, and the status of one record of any four counts up to     *)
(* MaxCount.                                                               *)
(***************************************************************************)
RenderRecords ==
    {SpecInfo(n, <<"specs", n>>, "full", c, st[1], st[2], 0, st[3], pr) :
        n \in {"a", "b"},
        c \in {None, Some([aware |-> TRUE, t |-> 1])},
        st \in {<<0, 0, 0>>, <<2, 1, 1>>},
        pr \in {None, Some(""), Some("alpha")}}

InitRender ==
    /\ pc = "output"
    /\ specs \in SeqsOf(RenderRecords, 0, MaxRows)
    /\ format \in {"table", "markdown", "json"}
    /\ sorted_specs = <<>>
    /\ sort_by = "name"
    /\ reverse = FALSE
    /\ stdout = <<>>
    /\ stderr = <<>>
    /\ NoScan

NextRender ==
    \/ output_table
    \/ output_markdown
    \/ output_json

SpecRender == InitRender /\ [][NextRender]_vars

InitStatus ==
    /\ pc = "output"
    /\ \E total, pending, in_progress, completed \in 0..MaxCount :
          specs = <<SpecInfo("a", <<"specs", "a">>, "unknown", None,
                             total, pending, in_progress, completed, None)>>
    /\ format \in {"table", "markdown", "json"}
    /\ sorted_specs = <<>>
    /\ sort_by = "name"
    /\ reverse = FALSE
    /\ stdout = <<>>
    /\ stderr = <<>>
    /\ NoScan

SpecStatus == InitStatus /\ [][NextRender]_vars

\* The value a JSON object line gives for a key.
JsonField(line, key) ==
    line[2 * (CHOOSE i \in 1..(Len(line) \div 2) : line[2 * i - 1] = key)]

HasKey(line, key) == \E i \in 1..(Len(line) \div 2) : line[2 * i - 1] = key

\* The status word the renderer printed for the only record.
PrintedStatus ==
    CASE format = "json" -> JsonField(stdout[2], "status")
      [] format = "markdown" -> SubSeq(stdout[3][4], 3, Len(stdout[3][4]))
      [] OTHER -> CHOOSE w \in {"Empty", "Complete", "Pending", "In Progress"} :
                     PadRight(SubSeq(stdout[3][4], 1, 2) \o w, 12) = stdout[3][4]

\* C3 as claimed: for any four counts, Empty iff total = 0, Complete iff
\* total > 0 and completed = total, Pending iff total > 0 and pending =
\* total, In Progress in every other case.
C3_StatusIff ==
    pc = "done" =>
        LET r == specs[1]
            st == PrintedStatus
        IN /\ st = "Empty" <=> r.total = 0
           /\ st = "Complete" <=> (r.total > 0 /\ r.completed = r.total)
           /\ st = "Pending" <=> (r.total > 0 /\ r.pending = r.total)
           /\ st = "In Progress" <=>
                 ~(r.total = 0 \/ r.completed = r.total \/ r.pending = r.total)

\* C3 as the code has it: Complete is tested before Pending, so Pending iff
\* total > 0, completed # total and pending = total.
C3_StatusOrdered ==
    pc = "done" =>
        LET r == specs[1]
            st == PrintedStatus
        IN /\ st \in {"Empty", "Complete", "Pending", "In Progress"}
           /\ st = "Empty" <=> r.total = 0
           /\ st = "Complete" <=> (r.total > 0 /\ r.completed = r.total)
           /\ st = "Pending" <=>
                 (r.total > 0 /\ r.completed # r.total /\ r.pending = r.total)
           /\ st = "In Progress" <=>
                 ~(r.total = 0 \/ r.completed = r.total \/ r.pending = r.total)

\* A record whose counts are at odds: all tasks completed and all pending.
C3_Witness ==
    /\ pc = "done"
    /\ specs[1].total > 0
    /\ specs[1].completed = specs[1].total
    /\ specs[1].pending = specs[1].total
    /\ PrintedStatus = "Complete"

\* C4 as claimed: on the empty list each of the three renderers prints the
\* line "No specs found." and nothing else.
C4_EmptyAllFormats ==
    (pc = "done" /\ specs = <<>>) => stdout = <<<<"No specs found.">>>>

\* C4 as the code has it: on the empty list the table and the markdown
\* renderer print the line "No specs found." and nothing else; the JSON
\* renderer prints the empty array, "[]".
C4_EmptyByFormat ==
    (pc = "done" /\ specs = <<>>) =>
        IF format = "json" THEN stdout = <<<<"[]">>>>
        ELSE stdout = <<<<"No specs found.">>>>

\* The JSON renderer has printed the empty list.
C4_Witness ==
    /\ pc = "done"
    /\ specs = <<>>
    /\ format = "json"
    /\ stdout # <<>>

HasProject(r) == r.project # None /\ r.project[1] # ""

StartsWith(str, prefix) == Len(str) >= Len(prefix) /\ SubSeq(str, 1, Len(prefix)) = prefix

\* C9: on a non-empty list, markdown has the Project column in the header
\* and in every row, and the table the header Project/Spec, iff some record
\* has a non-empty project; a markdown row then shows the record's project
\* or a dash; a table name is prefixed with "project/" exactly for a record
\* with a project; the JSON key "project" is on exactly those records.
C9_ProjectColumn ==
    (pc = "done" /\ specs # <<>>) =>
        LET any == \E i \in 1..Len(specs) : HasProject(specs[i])
        IN CASE format = "markdown" ->
                  /\ Len(stdout) = Len(specs) + 2
                  /\ (stdout[1][1] = "Project") <=> any
                  /\ \A k \in 1..Len(stdout) : Len(stdout[k]) = IF any THEN 9 ELSE 8
                  /\ \A i \in 1..Len(specs) :
                        LET r == specs[i]
                            row == stdout[i + 2]
                        IN IF any
                           THEN /\ row[1] = IF HasProject(r) THEN r.project[1] ELSE "-"
                                /\ row[2] = r.name
                           ELSE row[1] = r.name
             [] format = "table" ->
                  /\ Len(stdout) = Len(specs) + 2
                  /\ StartsWith(stdout[1][1], "Project/Spec") <=> any
                  /\ ~any => StartsWith(stdout[1][1], "Spec")
                  /\ \A i \in 1..Len(specs) :
                        LET r == specs[i]
                            shown == IF HasProject(r) THEN r.project[1] \o "/" \o r.name
                                     ELSE r.name
                            cell == stdout[i + 2][1]
                        IN /\ StartsWith(cell, shown)
                           /\ \A c \in (Len(shown) + 1)..Len(cell) : SubSeq(cell, c, c) = " "
             [] OTHER ->
                  /\ Len(stdout) = Len(specs) + 2
                  /\ \A i \in 1..Len(specs) :
                        /\ HasKey(stdout[i + 1], "project") <=> HasProject(specs[i])
                        /\ HasProject(specs[i]) =>
                              JsonField(stdout[i + 1], "project") = specs[i].project[1]

\* A list that mixes a record with a project and records without one, one
\* of them with the empty string as its project.
C9_Witness ==
    /\ pc = "done"
    /\ Len(specs) = 2
    /\ specs[1].project = Some("alpha")
    /\ specs[2].project \in {None, Some("")}
    /\ stdout # <<>>

====
